---- MODULE Spec2Model ----
(***************************************************************************)
(* The Go binding of fastembed (src/fastembed/fastembed.go) over the C     *)
(* boundary declared in src/include/fastembed.h.                           *)
(*                                                                         *)
(* The Go side is modelled from the source: the four wrapper types, their  *)
(* constructors, Embed/Rerank, Close and the finalizer each constructor    *)
(* registers.  A call that crosses into the native library is two steps    *)
(* (enter, return), so that several calls can be in flight at once; all    *)
(* other operations are one step.  The native library (rust/src/lib.rs) is *)
(* not part of the sources at hand: its functions are modelled from the    *)
(* specification and from the C declarations.                              *)
(***************************************************************************)
EXTENDS Integers, Sequences, FiniteSets, TLC

\* ------------------------------------------------------------------ bounds
MaxWrappers == 2
MaxGoroutines == 2
MaxLen == 2
MaxItem == 2

Wrappers == 1..MaxWrappers
Handles == 1..MaxWrappers
Goroutines == 1..MaxGoroutines
Items == 1..MaxItem

\* ------------------------------------------------------------- vocabulary
NULL == 0
NoErr == ""

EmbedFamilies == {"text", "sparse", "image"}
Families == EmbedFamilies \cup {"rerank"}

ModelNames == {"", "m", "x", "bogus"}
BatchSizes == {-1, 0, 1}
Queries == {"q"}

RECURSIVE SeqsUpTo(_, _)
SeqsUpTo(S, n) ==
  IF n = 0 THEN {<<>>}
  ELSE LET prev == SeqsUpTo(S, n - 1)
       IN prev \cup {Append(s, x) : s \in {t \in prev : Len(t) = n - 1}, x \in S}

InputLists == SeqsUpTo(Items, MaxLen)

\* A Go slice: nil or a (possibly empty) list of elements.
GoNil == [nil |-> TRUE, elems |-> <<>>]
GoSlice(s) == [nil |-> FALSE, elems |-> s]

NoArgs == [name |-> "", inputs |-> <<>>, query |-> "", returnDocuments |-> FALSE, batchSize |-> 0]
EmbedArgs(texts, bs) == [NoArgs EXCEPT !.inputs = texts, !.batchSize = bs]
RerankArgs(q, docs, rd, bs) ==
  [NoArgs EXCEPT !.query = q, !.inputs = docs, !.returnDocuments = rd, !.batchSize = bs]

\* C.size_t(n) of a Go int: the value modulo 2^64.  The model's integers are
\* 32 bits wide, so the modulus is scaled to 2^30: a non-negative int below it
\* is unchanged and a negative one becomes a value just below the modulus.
SizeTModulus == 2^30
CSizeT(n) == n % SizeTModulus

\* The arguments of a native call: the model name (a C string or the null
\* pointer), the number of inputs and the batch size (both size_t).
NoReply == [crash |-> FALSE, null |-> TRUE, err |-> "", vec |-> [len |-> 0]]
NoC == [name |-> [null |-> TRUE, s |-> ""], query |-> "", texts |-> <<>>, n |-> 0, batchSize |-> 0,
        ret |-> NoReply, mem |-> <<>>, defers |-> <<>>]

\* No result slice is held.
NoKept == [held |-> FALSE, args |-> NoArgs, orig |-> GoNil, cur |-> GoNil]

Absent == [fam |-> "none", handle |-> NULL, orig |-> NULL]
Idle == [op |-> "idle", w |-> NULL, fam |-> "none", handle |-> NULL, args |-> NoArgs, c |-> NoC]

VARIABLES
  wr,            \* wrapper objects: family (the Go type), handle field, and
                 \* orig, the handle the constructor was given
  reach,         \* the wrapper is referenced by the caller
  finalizer,     \* a finalizer is registered on the wrapper and has not run
  nat,           \* native handles: "unalloc", "live", "freed"
  freeCount,     \* calls of the native free function per handle
  call,          \* per goroutine: the native call it is inside, or Idle
  last,          \* the step just taken and what it returned to its caller
  nativeConforms,\* the native library keeps its documented contract
  kept           \* a result slice the caller holds on to: the arguments of
                 \* the call that returned it, the slice as it was returned
                 \* (orig) and as the caller reads it now (cur)

vars == <<wr, reach, finalizer, nat, freeCount, call, last, nativeConforms, kept>>

\* The record of a step: the operation, the wrapper and the handle field it
\* found there, how the step ended ("enter": inside the native call, "return",
\* "panic", "crash") and what it returned.
Step(op, w, fam, out, args, res, err) ==
  [op |-> op, w |-> w, pre |-> IF w = NULL THEN NULL ELSE wr[w].handle, fam |-> fam,
   out |-> out, args |-> args, c |-> NoC, res |-> res, err |-> err]

\* ------------------------------------------------- the native library
\* The static registry of a family: the ModelInfoC entries in registry order.
\* The text family knows a model the other families do not.
Registry(fam) ==
  LET dim == IF fam \in {"text", "image"} THEN 2 ELSE 0
  IN IF fam = "text"
     THEN <<[model_code |-> "m", description |-> "default", dim |-> dim],
            [model_code |-> "x", description |-> "other", dim |-> dim]>>
     ELSE <<[model_code |-> "m", description |-> "default", dim |-> dim]>>

ModelCodes(fam) == {Registry(fam)[i].model_code : i \in 1..Len(Registry(fam))}

\* fastembed_*_list_supported_models: a new ModelInfoVec copied from the registry.
NativeListSupportedModels(fam) ==
  [null |-> FALSE, len |-> Len(Registry(fam)), models |-> Registry(fam)]

\* fastembed_*_new: a code that is not in the family's registry fails; one that
\* is (or the null name, the family default) loads, unless download or load
\* fails.
NativeNewOutcomes(fam, cModelName) ==
  IF cModelName.null \/ cModelName.s \in ModelCodes(fam)
  THEN {"ok", "DownloadFailed"}
  ELSE {"ModelNotFound"}

\* fastembed_*_free: drops the handle; a null handle is ignored.
NativeFree(h) ==
  IF h = NULL THEN UNCHANGED <<nat, freeCount>>
  ELSE /\ nat' = [nat EXCEPT ![h] = "freed"]
       /\ freeCount' = [freeCount EXCEPT ![h] = @ + 1]

\* How a native call given handle h can end: it returns a result or an error;
\* on a handle that is not live its behaviour is undefined.
NativeCallOutcomes(h) ==
  IF h # NULL /\ nat[h] = "live" THEN {"ok", "InferenceError"}
  ELSE {"ok", "InferenceError", "crash"}

\* Contiguous chunks of n elements, the last one possibly shorter.
RECURSIVE Chunks(_, _)
Chunks(s, n) ==
  IF Len(s) = 0 THEN <<>>
  ELSE IF Len(s) <= n THEN <<s>>
  ELSE <<SubSeq(s, 1, n)>> \o Chunks(SubSeq(s, n + 1, Len(s)), n)

RECURSIVE Flatten(_)
Flatten(ss) == IF Len(ss) = 0 THEN <<>> ELSE Head(ss) \o Flatten(Tail(ss))

\* batch_size 0 selects the family default, larger than any list enumerated here.
ChunkSize(batchSize, n) == IF batchSize = 0 THEN n ELSE batchSize

\* One forward pass over a chunk: one output per input, in order.
DenseOf(x) == [len |-> 2, data |-> <<x, 2 * x>>]
SparseOf(x) == [len |-> x, indices |-> [j \in 1..x |-> x + j], values |-> [j \in 1..x |-> 10 * x + j]]
RunDense(chunk) == [i \in 1..Len(chunk) |-> DenseOf(chunk[i])]
RunSparse(chunk) == [i \in 1..Len(chunk) |-> SparseOf(chunk[i])]

\* fastembed_text_embedding_embed / fastembed_image_embedding_embed: FloatArrayVec.
NativeEmbedDense(texts, batchSize) ==
  LET cs == Chunks(texts, ChunkSize(batchSize, Len(texts)))
      out == Flatten([k \in 1..Len(cs) |-> RunDense(cs[k])])
  IN [len |-> Len(out), arrays |-> out]

\* fastembed_sparse_text_embedding_embed: SparseEmbeddingVec.
NativeEmbedSparse(texts, batchSize) ==
  LET cs == Chunks(texts, ChunkSize(batchSize, Len(texts)))
      out == Flatten([k \in 1..Len(cs) |-> RunSparse(cs[k])])
  IN [len |-> Len(out), embeddings |-> out]

\* A sparse result of a library that honours only the C types of fastembed.h:
\* any number of entries, any length, indices in any order.
AnySparseEntries ==
  {[len |-> n, indices |-> [j \in 1..n |-> IF up THEN j ELSE 1], values |-> [j \in 1..n |-> j]] :
     n \in 0..MaxItem, up \in BOOLEAN}
AnySparseVecs ==
  {[len |-> Len(es), embeddings |-> es] : es \in SeqsUpTo(AnySparseEntries, MaxLen)}

\* The relevance score of a document for the query.
ScoreOf(d) == d

\* Insert r into the sequence s, sorted by score descending, after every entry
\* whose score is at least r's (a stable sort keeps input order among ties).
RECURSIVE InsertDesc(_, _)
InsertDesc(s, r) ==
  IF Len(s) = 0 THEN <<r>>
  ELSE IF Head(s).score >= r.score THEN <<Head(s)>> \o InsertDesc(Tail(s), r)
  ELSE <<r>> \o s

RECURSIVE SortDesc(_)
SortDesc(s) ==
  IF Len(s) = 0 THEN <<>>
  ELSE InsertDesc(SortDesc(SubSeq(s, 1, Len(s) - 1)), s[Len(s)])

\* fastembed_text_rerank_rerank: RerankResultVec, the C document pointer being
\* null unless return_documents is set.
NativeRerank(query, documents, returnDocuments, batchSize) ==
  LET cs == Chunks(documents, ChunkSize(batchSize, Len(documents)))
      scores == Flatten([k \in 1..Len(cs) |-> [i \in 1..Len(cs[k]) |-> ScoreOf(cs[k][i])]])
      raw == [i \in 1..Len(documents) |->
                [index |-> i - 1, score |-> scores[i],
                 document |-> IF returnDocuments THEN documents[i] ELSE NULL]]
      out == SortDesc(raw)
  IN [len |-> Len(out), results |-> out]

\* Every result the sparse call can hand back for these inputs.
NativeSparseResults(texts, batchSize) ==
  IF nativeConforms THEN {NativeEmbedSparse(texts, batchSize)}
  ELSE AnySparseVecs \cup {NativeEmbedSparse(texts, batchSize)}

\* The inputs a native call reads: the first n entries of the array it is
\* given (the binding passes the array's length as n).
NativeTexts(c) == SubSeq(c.texts, 1, IF c.n <= Len(c.texts) THEN c.n ELSE Len(c.texts))

\* The error message of a call that failed on one input: it names the input's
\* zero-based index.
FailedAt(i) == "input " \o ToString(i) \o " failed"

\* The failures of single inputs a call can meet: any image file may turn out
\* to be missing or not decodable.
InputFailures(fam, inputs) ==
  IF fam = "image" THEN {FailedAt(i - 1) : i \in 1..Len(inputs)} ELSE {}

\* What a native call in flight can hand back: a result vector and no error; a
\* null result and an error (the whole call fails when one input does); on a
\* handle that is not live, anything, a crash included. A library off its
\* contract may also return a null result and leave the error unset.
NativeReplies(c, vecs) ==
  {[crash |-> FALSE, null |-> FALSE, err |-> NoErr, vec |-> v] : v \in vecs}
  \cup {[crash |-> FALSE, null |-> TRUE, err |-> e, vec |-> [len |-> 0]] :
          e \in (NativeCallOutcomes(c.handle) \ {"ok", "crash"}) \cup InputFailures(c.fam, NativeTexts(c.c))}
  \cup (IF "crash" \in NativeCallOutcomes(c.handle)
        THEN {[crash |-> TRUE, null |-> TRUE, err |-> NoErr, vec |-> [len |-> 0]]} ELSE {})
  \cup (IF nativeConforms
        THEN {} ELSE {[crash |-> FALSE, null |-> TRUE, err |-> NoErr, vec |-> [len |-> 0]]})

\* ------------------------------------------------------ the Go binding
\* Mutant of CModelName: C.CString(modelName) whatever the name, so the empty
\* name reaches the native constructor as an empty C string.
CModelNameAlways(modelName) == [null |-> FALSE, s |-> modelName]

\* Mutant of CModelName: the C string is freed before the native constructor
\* is called, which reads it as an empty string.
CModelNameFreed(modelName) == [null |-> modelName = "", s |-> ""]

\* C.CString(modelName) when modelName != "", a null pointer otherwise.
CModelName(modelName) == [null |-> modelName = "", s |-> modelName]

\* Mutant of newError: the Error is built with a fixed message.
newErrorFixedMessage(cErr) == IF cErr = NoErr THEN NoErr ELSE "native call failed"

\* newError: nil for a null error pointer, else an Error with its message.
newError(cErr) == cErr

\* C.CString(text): a new C string with the text's bytes.
CString(text) == text

\* One event on C memory: an object is allocated, copied out of, or freed.
MemEvent(ev, obj) == [ev |-> ev, obj |-> obj]

\* The C string made from input i (cTexts[i-1], cDocs[i-1], cPaths[i-1]).
CStringObj(i) == "cstring " \o ToString(i - 1)

\* Go runs a function's deferred calls at its return or panic, last registered first.
RunDeferred(defers) == [i \in 1..Len(defers) |-> defers[Len(defers) + 1 - i]]

\* Mutant of AllocInputs: only the last C string's free is deferred.
AllocInputsFreeLast(c) ==
  [c EXCEPT !.mem = @ \o [i \in 1..Len(c.texts) |-> MemEvent("alloc", CStringObj(i))],
            !.defers = @ \o (IF Len(c.texts) = 0 THEN <<>> ELSE <<MemEvent("free", CStringObj(Len(c.texts)))>>)]

\* The marshaling loop: cTexts[i] = C.CString(text); defer C.free(cTexts[i]).
AllocInputs(c) ==
  [c EXCEPT !.mem = @ \o [i \in 1..Len(c.texts) |-> MemEvent("alloc", CStringObj(i))],
            !.defers = @ \o [i \in 1..Len(c.texts) |-> MemEvent("free", CStringObj(i))]]

\* Rerank: cQuery := C.CString(query); defer C.free(cQuery), before the documents.
AllocQuery(c, query) ==
  [c EXCEPT !.query = CString(query),
            !.mem = <<MemEvent("alloc", "cQuery")>> \o @,
            !.defers = <<MemEvent("free", "cQuery")>> \o @]

\* Mutant of AllocName: the model name's C string is never freed.
AllocNameLeaked(c) ==
  IF c.name.null THEN c ELSE [c EXCEPT !.mem = <<MemEvent("alloc", "cModelName")>>]

\* A constructor: cModelName = C.CString(modelName); defer C.free(cModelName),
\* only when modelName is not empty.
AllocName(c) ==
  IF c.name.null THEN c
  ELSE [c EXCEPT !.mem = <<MemEvent("alloc", "cModelName")>>,
                 !.defers = <<MemEvent("free", "cModelName")>>]

\* Mutant of newErrorMem: the error object is freed before its message is read.
newErrorMemFreeFirst(cErr) ==
  IF cErr = NoErr THEN <<>> ELSE <<MemEvent("free", "cErr"), MemEvent("copy", "cErr")>>

\* newError on C memory: the deferred fastembed_error_free runs after
\* C.GoString has copied the message; nothing happens for a null pointer.
newErrorMem(cErr) ==
  IF cErr = NoErr THEN <<>> ELSE <<MemEvent("copy", "cErr"), MemEvent("free", "cErr")>>

\* Mutant of ResultMem: the result vector is freed before the copy loop.
ResultMemFreeFirst(c, reply) ==
  IF reply.null
  THEN [c EXCEPT !.mem = @ \o newErrorMem(reply.err)]
  ELSE [c EXCEPT !.mem = @ \o <<MemEvent("free", "result"), MemEvent("copy", "result")>>]

\* Mutant of ResultMem: the result vector is never freed.
ResultMemLeaked(c, reply) ==
  IF reply.null
  THEN [c EXCEPT !.mem = @ \o newErrorMem(reply.err)]
  ELSE [c EXCEPT !.mem = @ \o <<MemEvent("copy", "result")>>]

\* After the native call: a null result goes through newError; a result has
\* its free deferred and is then copied by the loop.
ResultMem(c, reply) ==
  IF reply.null
  THEN [c EXCEPT !.mem = @ \o newErrorMem(reply.err)]
  ELSE [c EXCEPT !.mem = @ \o <<MemEvent("copy", "result")>>,
                 !.defers = @ \o <<MemEvent("free", "result")>>]

\* The function returns or panics: its deferred calls run.
ReturnMem(c) == [c EXCEPT !.mem = @ \o RunDeferred(c.defers), !.defers = <<>>]

\* Mutant of CArgs: the two size_t arguments are passed in each other's place.
CArgsSwapped(inputs, batchSize) ==
  AllocInputs([NoC EXCEPT !.texts = [i \in 1..Len(inputs) |-> CString(inputs[i])],
                          !.n = CSizeT(batchSize), !.batchSize = CSizeT(Len(inputs))])

\* The arguments of an Embed or Rerank call: one C string per input in the
\* caller's order, C.size_t(len(texts)), C.size_t(batchSize).
CArgs(inputs, batchSize) ==
  AllocInputs([NoC EXCEPT !.texts = [i \in 1..Len(inputs) |-> CString(inputs[i])],
                          !.n = CSizeT(Len(inputs)), !.batchSize = CSizeT(batchSize)])

HandleNilMessage(fam) ==
  CASE fam = "text" -> "TextEmbedding handle is nil"
    [] fam = "sparse" -> "SparseTextEmbedding handle is nil"
    [] fam = "image" -> "ImageEmbedding handle is nil"
    [] OTHER -> "TextRerank handle is nil"

HandleNilMessages == {HandleNilMessage(f) : f \in Families}

\* Mutant of ToGoFloats: every embedding is copied from the first array.
ToGoFloatsFirstArray(result) ==
  [i \in 1..result.len |->
     [j \in 1..result.arrays[1].len |-> result.arrays[1].data[j]]]

\* Mutant of ToGoFloats: the copy loop stops one entry short.
ToGoFloatsDropLast(result) ==
  [i \in 1..(result.len - 1) |->
     [j \in 1..result.arrays[i].len |-> result.arrays[i].data[j]]]

\* FloatArrayVec -> [][]float32: result.len entries, array.len values each.
ToGoFloats(result) ==
  [i \in 1..result.len |->
     [j \in 1..result.arrays[i].len |-> result.arrays[i].data[j]]]

\* Mutant of ToGoSparse: values is made with result.len, the number of
\* embeddings, instead of cEmb.len.
ToGoSparseValuesByVecLen(result) ==
  [i \in 1..result.len |->
     LET cEmb == result.embeddings[i]
     IN [Indices |-> [j \in 1..cEmb.len |-> cEmb.indices[j]],
         Values |-> [j \in 1..result.len |-> IF j <= cEmb.len THEN cEmb.values[j] ELSE 0]]]

\* Mutant of ToGoSparse: every index is read from element 0 of the C array.
ToGoSparseFirstIndex(result) ==
  [i \in 1..result.len |->
     LET cEmb == result.embeddings[i]
     IN [Indices |-> [j \in 1..cEmb.len |-> cEmb.indices[1]],
         Values |-> [j \in 1..cEmb.len |-> cEmb.values[j]]]]

\* SparseEmbeddingVec -> []SparseEmbedding: both slices made with cEmb.len.
ToGoSparse(result) ==
  [i \in 1..result.len |->
     LET cEmb == result.embeddings[i]
     IN [Indices |-> [j \in 1..cEmb.len |-> cEmb.indices[j]],
         Values |-> [j \in 1..cEmb.len |-> cEmb.values[j]]]]

\* Mutant of ToGoRerank: the results are filled from the back.
ToGoRerankReversed(result) ==
  [i \in 1..result.len |->
     LET cResult == result.results[result.len + 1 - i]
     IN [Index |-> cResult.index, Score |-> cResult.score,
         Document |-> IF cResult.document # NULL THEN cResult.document ELSE 0]]

\* Mutant of ToGoRerank: Index is taken as a one-based position.
ToGoRerankOneBased(result) ==
  [i \in 1..result.len |->
     LET cResult == result.results[i]
     IN [Index |-> cResult.index + 1, Score |-> cResult.score,
         Document |-> IF cResult.document # NULL THEN cResult.document ELSE 0]]

\* Mutant of ToGoRerank: the copied results are sorted again in Go, by Score
\* descending, an entry going in front of the entries of equal Score.
RECURSIVE InsertFront(_, _)
InsertFront(s, r) ==
  IF Len(s) = 0 THEN <<r>>
  ELSE IF Head(s).Score > r.Score THEN <<Head(s)>> \o InsertFront(Tail(s), r)
  ELSE <<r>> \o s

RECURSIVE ResortFront(_)
ResortFront(s) ==
  IF Len(s) = 0 THEN <<>>
  ELSE InsertFront(ResortFront(SubSeq(s, 1, Len(s) - 1)), s[Len(s)])

ToGoRerankResorted(result) ==
  ResortFront([i \in 1..result.len |->
     LET cResult == result.results[i]
     IN [Index |-> cResult.index, Score |-> cResult.score,
         Document |-> IF cResult.document # NULL THEN cResult.document ELSE 0]])

\* Mutant of ToGoRerank: the document is not copied.
ToGoRerankNoDocument(result) ==
  [i \in 1..result.len |->
     LET cResult == result.results[i]
     IN [Index |-> cResult.index, Score |-> cResult.score, Document |-> 0]]

\* RerankResultVec -> []RerankResult; Document stays the zero string (0) when
\* the C document pointer is null.
ToGoRerank(result) ==
  [i \in 1..result.len |->
     LET cResult == result.results[i]
     IN [Index |-> cResult.index, Score |-> cResult.score,
         Document |-> IF cResult.document # NULL THEN cResult.document ELSE 0]]

\* Mutant of StoreResult: the result is written into one buffer that every
\* call returns, so a slice returned earlier shows the new result.
StoreResultShared(k, res) == IF k.held THEN [k EXCEPT !.cur = res] ELSE k

\* make([][]float32, result.len), make([]float32, array.len) and the copy loop:
\* the result is written to newly allocated Go memory, so the memory of a
\* slice returned earlier is not written.
StoreResult(k, res) == k

\* The caller holds on to the slice that the call just returned.
Keep ==
  /\ ~kept.held
  /\ last.op \in {"Embed", "Rerank"} /\ last.out = "return" /\ ~last.res.nil
  /\ kept' = [held |-> TRUE, args |-> last.args, orig |-> last.res, cur |-> last.res]
  /\ last' = Step("Keep", last.w, last.fam, "return", NoArgs, GoNil, NoErr)
  /\ UNCHANGED <<wr, reach, finalizer, nat, freeCount, call, nativeConforms>>

FreshWrapper == CHOOSE w \in Wrappers : wr[w].fam = "none" /\ \A v \in Wrappers : v < w => wr[v].fam # "none"
FreshHandle == CHOOSE h \in Handles : nat[h] = "unalloc" /\ \A k \in Handles : k < h => nat[k] # "unalloc"

\* Mutant of NewModel: the wrapper is built and its finalizer set before the
\* handle is tested, and it is returned with the error.
NewModelPartial(g, fam, modelName) ==
  /\ call[g] = Idle
  /\ \E w \in Wrappers : wr[w].fam = "none"
  /\ \E outcome \in NativeNewOutcomes(fam, CModelName(modelName)) :
       LET w == FreshWrapper
           handle == IF outcome = "ok" THEN FreshHandle ELSE NULL
       IN /\ nat' = IF outcome = "ok" THEN [nat EXCEPT ![handle] = "live"] ELSE nat
          /\ wr' = [wr EXCEPT ![w] = [fam |-> fam, handle |-> handle, orig |-> handle]]
          /\ reach' = [reach EXCEPT ![w] = TRUE]
          /\ finalizer' = [finalizer EXCEPT ![w] = TRUE]
          /\ last' = [Step("New", w, fam, "return", [NoArgs EXCEPT !.name = modelName], GoNil,
                           IF outcome = "ok" THEN NoErr ELSE newError(outcome))
                      EXCEPT !.c.name = CModelName(modelName)]
  /\ UNCHANGED <<freeCount, call, nativeConforms, kept>>

\* NewTextEmbedding / NewSparseTextEmbedding / NewImageEmbedding / NewTextRerank.
NewModel(g, fam, modelName) ==
  /\ call[g] = Idle
  /\ \E w \in Wrappers : wr[w].fam = "none"
  /\ \E outcome \in NativeNewOutcomes(fam, CModelName(modelName)) :
       IF outcome = "ok"
       THEN LET w == FreshWrapper
                handle == FreshHandle
            IN /\ nat' = [nat EXCEPT ![handle] = "live"]
               /\ wr' = [wr EXCEPT ![w] = [fam |-> fam, handle |-> handle, orig |-> handle]]
               /\ reach' = [reach EXCEPT ![w] = TRUE]
               /\ finalizer' = [finalizer EXCEPT ![w] = TRUE]
               /\ last' = [Step("New", w, fam, "return", [NoArgs EXCEPT !.name = modelName], GoNil, NoErr)
                           EXCEPT !.c = ReturnMem(AllocName([NoC EXCEPT !.name = CModelName(modelName), !.ret.null = FALSE]))]
       ELSE /\ last' = [Step("New", NULL, fam, "return", [NoArgs EXCEPT !.name = modelName], GoNil, newError(outcome))
                        EXCEPT !.c = LET c == AllocName([NoC EXCEPT !.name = CModelName(modelName), !.ret.err = outcome])
                                     IN ReturnMem([c EXCEPT !.mem = @ \o newErrorMem(outcome)])]
            /\ UNCHANGED <<wr, reach, finalizer, nat>>
  /\ UNCHANGED <<freeCount, call, nativeConforms, kept>>

\* Mutant of EmbedEnter: no nil-handle check.
EmbedEnterNoNilCheck(g, w, texts, batchSize) ==
  /\ call[g] = Idle
  /\ wr[w].fam \in EmbedFamilies
  /\ LET fam == wr[w].fam
         args == EmbedArgs(texts, batchSize)
     IN IF Len(texts) = 0
        THEN /\ last' = Step("Embed", w, fam, "panic", args, GoNil, "index out of range [0] with length 0")
             /\ UNCHANGED call
        ELSE /\ call' = [call EXCEPT ![g] = [op |-> "Embed", w |-> w, fam |-> fam, handle |-> wr[w].handle, args |-> args, c |-> CArgs(texts, batchSize)]]
             /\ last' = [Step("Embed", w, fam, "enter", args, GoNil, NoErr) EXCEPT !.c = CArgs(texts, batchSize)]
  /\ UNCHANGED <<wr, reach, finalizer, nat, freeCount, nativeConforms, kept>>

\* Mutant of EmbedEnter: the wrapper holds a mutex for the duration of the
\* call, so a second caller waits until the first has returned.
EmbedEnterLocked(g, w, texts, batchSize) ==
  /\ call[g] = Idle
  /\ wr[w].fam \in EmbedFamilies
  /\ \A o \in Goroutines : call[o].op # "idle" => call[o].w # w
  /\ LET fam == wr[w].fam
         args == EmbedArgs(texts, batchSize)
     IN IF wr[w].handle = NULL
        THEN /\ last' = Step("Embed", w, fam, "return", args, GoNil, HandleNilMessage(fam))
             /\ UNCHANGED call
        ELSE IF Len(texts) = 0
        THEN /\ last' = Step("Embed", w, fam, "panic", args, GoNil, "index out of range [0] with length 0")
             /\ UNCHANGED call
        ELSE /\ call' = [call EXCEPT ![g] = [op |-> "Embed", w |-> w, fam |-> fam, handle |-> wr[w].handle, args |-> args, c |-> CArgs(texts, batchSize)]]
             /\ last' = [Step("Embed", w, fam, "enter", args, GoNil, NoErr) EXCEPT !.c = CArgs(texts, batchSize)]
  /\ UNCHANGED <<wr, reach, finalizer, nat, freeCount, nativeConforms, kept>>

\* Embed up to the native call: the nil-handle check, the C strings, &cTexts[0].
EmbedEnter(g, w, texts, batchSize) ==
  /\ call[g] = Idle
  /\ wr[w].fam \in EmbedFamilies
  /\ LET fam == wr[w].fam
         args == EmbedArgs(texts, batchSize)
     IN IF wr[w].handle = NULL
        THEN /\ last' = Step("Embed", w, fam, "return", args, GoNil, HandleNilMessage(fam))
             /\ UNCHANGED call
        ELSE IF Len(texts) = 0
        THEN /\ last' = Step("Embed", w, fam, "panic", args, GoNil, "index out of range [0] with length 0")
             /\ UNCHANGED call
        ELSE /\ call' = [call EXCEPT ![g] = [op |-> "Embed", w |-> w, fam |-> fam, handle |-> wr[w].handle, args |-> args, c |-> CArgs(texts, batchSize)]]
             /\ last' = [Step("Embed", w, fam, "enter", args, GoNil, NoErr) EXCEPT !.c = CArgs(texts, batchSize)]
  /\ UNCHANGED <<wr, reach, finalizer, nat, freeCount, nativeConforms, kept>>

\* Mutant of EmbedReturn: the deferred free is given the model handle instead
\* of the result, and the field is cleared.
EmbedReturnFreesHandle(g) ==
  /\ call[g].op = "Embed"
  /\ LET c == call[g]
     IN /\ \E outcome \in NativeCallOutcomes(c.handle) :
            last' = IF outcome = "ok"
                    THEN Step("Embed", c.w, c.fam, "return", c.args,
                              GoSlice(IF c.fam = "sparse"
                                      THEN ToGoSparse(NativeEmbedSparse(c.args.inputs, c.c.batchSize))
                                      ELSE ToGoFloats(NativeEmbedDense(c.args.inputs, c.c.batchSize))), NoErr)
                    ELSE Step("Embed", c.w, c.fam, "return", c.args, GoNil, newError("InferenceError"))
        /\ NativeFree(c.handle)
        /\ wr' = [wr EXCEPT ![c.w].handle = NULL]
  /\ call' = [call EXCEPT ![g] = Idle]
  /\ UNCHANGED <<reach, finalizer, nativeConforms, kept>>

\* Mutant of EmbedReturn: the error path closes the wrapper.
EmbedReturnClosesOnError(g) ==
  /\ call[g].op = "Embed"
  /\ LET c == call[g]
     IN \E outcome \in NativeCallOutcomes(c.handle) \ {"crash"} :
          IF outcome = "ok"
          THEN /\ last' = Step("Embed", c.w, c.fam, "return", c.args,
                               GoSlice(IF c.fam = "sparse"
                                       THEN ToGoSparse(NativeEmbedSparse(c.args.inputs, c.c.batchSize))
                                       ELSE ToGoFloats(NativeEmbedDense(c.args.inputs, c.c.batchSize))), NoErr)
               /\ UNCHANGED <<wr, nat, freeCount>>
          ELSE /\ last' = Step("Embed", c.w, c.fam, "return", c.args, GoNil, newError(outcome))
               /\ NativeFree(c.handle)
               /\ wr' = [wr EXCEPT ![c.w].handle = NULL]
  /\ call' = [call EXCEPT ![g] = Idle]
  /\ UNCHANGED <<reach, finalizer, nativeConforms, kept>>

\* From the native call's return to the return of Embed or Rerank:
\* if result == nil { return nil, newError(cErr) }, else the copy, return value, nil.
GoReturn(op, c, reply, value) ==
  [(CASE reply.crash -> Step(op, c.w, c.fam, "crash", c.args, GoNil, NoErr)
      [] ~reply.crash /\ reply.null -> Step(op, c.w, c.fam, "return", c.args, GoNil, newError(reply.err))
      [] OTHER -> Step(op, c.w, c.fam, "return", c.args, GoSlice(value), NoErr))
   EXCEPT !.c = IF reply.crash THEN [c.c EXCEPT !.ret = reply]
                ELSE ReturnMem(ResultMem([c.c EXCEPT !.ret = reply], reply))]

\* Embed from the native call's return: the error path, or the copy into Go slices.
EmbedReturn(g) ==
  /\ call[g].op = "Embed"
  /\ LET c == call[g]
         vecs == IF c.fam = "sparse"
                 THEN NativeSparseResults(NativeTexts(c.c), c.c.batchSize)
                 ELSE {NativeEmbedDense(NativeTexts(c.c), c.c.batchSize)}
     IN \E reply \in NativeReplies(c, vecs) :
          last' = GoReturn("Embed", c, reply,
                           IF reply.null THEN <<>>
                           ELSE IF c.fam = "sparse" THEN ToGoSparse(reply.vec) ELSE ToGoFloats(reply.vec))
  /\ kept' = IF last'.out = "return" /\ ~last'.res.nil THEN StoreResult(kept, last'.res) ELSE kept
  /\ call' = [call EXCEPT ![g] = Idle]
  /\ UNCHANGED <<wr, reach, finalizer, nat, freeCount, nativeConforms>>

\* Rerank up to the native call.
RerankEnter(g, w, query, documents, returnDocuments, batchSize) ==
  /\ call[g] = Idle
  /\ wr[w].fam = "rerank"
  /\ LET args == RerankArgs(query, documents, returnDocuments, batchSize)
     IN IF wr[w].handle = NULL
        THEN /\ last' = Step("Rerank", w, "rerank", "return", args, GoNil, HandleNilMessage("rerank"))
             /\ UNCHANGED call
        ELSE IF Len(documents) = 0
        THEN /\ last' = [Step("Rerank", w, "rerank", "panic", args, GoNil, "index out of range [0] with length 0")
                         EXCEPT !.c = ReturnMem(AllocQuery(CArgs(documents, batchSize), query))]
             /\ UNCHANGED call
        ELSE /\ call' = [call EXCEPT ![g] = [op |-> "Rerank", w |-> w, fam |-> "rerank", handle |-> wr[w].handle, args |-> args, c |-> AllocQuery(CArgs(documents, batchSize), query)]]
             /\ last' = [Step("Rerank", w, "rerank", "enter", args, GoNil, NoErr)
                         EXCEPT !.c = AllocQuery(CArgs(documents, batchSize), query)]
  /\ UNCHANGED <<wr, reach, finalizer, nat, freeCount, nativeConforms, kept>>

\* Rerank from the native call's return.
RerankReturn(g) ==
  /\ call[g].op = "Rerank"
  /\ LET c == call[g]
         vecs == {NativeRerank(c.args.query, NativeTexts(c.c), c.args.returnDocuments, c.c.batchSize)}
     IN \E reply \in NativeReplies(c, vecs) :
          last' = GoReturn("Rerank", c, reply, IF reply.null THEN <<>> ELSE ToGoRerank(reply.vec))
  /\ kept' = IF last'.out = "return" /\ ~last'.res.nil THEN StoreResult(kept, last'.res) ELSE kept
  /\ call' = [call EXCEPT ![g] = Idle]
  /\ UNCHANGED <<wr, reach, finalizer, nat, freeCount, nativeConforms>>

\* Mutant of ToGoModels: ModelCode is read from the description field.
ToGoModelsCodeFromDescription(cVec) ==
  [i \in 1..cVec.len |->
     LET model == cVec.models[i]
     IN [ModelCode |-> model.description, Description |-> model.description, Dimension |-> model.dim]]

\* ModelInfoVec -> []ModelInfo.
ToGoModels(cVec) ==
  [i \in 1..cVec.len |->
     LET model == cVec.models[i]
     IN [ModelCode |-> model.model_code, Description |-> model.description, Dimension |-> model.dim]]

\* ListTextEmbeddingModels / ListSparseTextEmbeddingModels /
\* ListImageEmbeddingModels / ListTextRerankModels.
ListModels(g, fam) ==
  /\ call[g] = Idle
  /\ LET cVec == NativeListSupportedModels(fam)
     IN last' = [Step("List", NULL, fam, "return", NoArgs,
                      IF cVec.null THEN GoNil ELSE GoSlice(ToGoModels(cVec)), NoErr)
                 EXCEPT !.c = LET reply == [NoReply EXCEPT !.null = cVec.null, !.vec = cVec]
                              IN ReturnMem(ResultMem([NoC EXCEPT !.ret = reply], reply))]
  /\ UNCHANGED <<wr, reach, finalizer, nat, freeCount, call, nativeConforms, kept>>

\* Mutant of Close: the handle field is cleared before it is passed to free.
CloseNilsFirst(w) ==
  IF wr[w].handle # NULL
  THEN /\ wr' = [wr EXCEPT ![w].handle = NULL]
       /\ NativeFree(NULL)
  ELSE UNCHANGED <<wr, nat, freeCount>>

\* Mutant of Close: the handle is freed and the field is left as it was.
CloseKeepsHandle(w) ==
  IF wr[w].handle # NULL
  THEN /\ NativeFree(wr[w].handle)
       /\ UNCHANGED wr
  ELSE UNCHANGED <<wr, nat, freeCount>>

\* Mutant of Close: the handle field of every wrapper is cleared, as if the
\* wrappers shared one handle.
CloseClearsAll(w) ==
  IF wr[w].handle # NULL
  THEN /\ NativeFree(wr[w].handle)
       /\ wr' = [v \in Wrappers |-> [wr[v] EXCEPT !.handle = NULL]]
  ELSE UNCHANGED <<wr, nat, freeCount>>

\* The Close method of the four wrapper types.
Close(w) ==
  IF wr[w].handle # NULL
  THEN /\ NativeFree(wr[w].handle)
       /\ wr' = [wr EXCEPT ![w].handle = NULL]
  ELSE UNCHANGED <<wr, nat, freeCount>>

\* Close called by the program.
CallerClose(g, w) ==
  /\ call[g] = Idle
  /\ wr[w].fam # "none"
  /\ Close(w)
  /\ last' = Step("Close", w, wr[w].fam, "return", NoArgs, GoNil, NoErr)
  /\ UNCHANGED <<reach, finalizer, call, nativeConforms, kept>>

\* The program lets go of its last reference to the wrapper.
Drop(w) ==
  /\ wr[w].fam # "none"
  /\ reach[w]
  /\ reach' = [reach EXCEPT ![w] = FALSE]
  /\ last' = Step("Drop", w, wr[w].fam, "return", NoArgs, GoNil, NoErr)
  /\ UNCHANGED <<wr, finalizer, nat, freeCount, call, nativeConforms, kept>>

\* Mutant of Finalizer: the finalizer function does not call Close.
FinalizerNoClose(w) ==
  /\ finalizer[w]
  /\ ~reach[w]
  /\ finalizer' = [finalizer EXCEPT ![w] = FALSE]
  /\ last' = Step("Finalizer", w, wr[w].fam, "return", NoArgs, GoNil, NoErr)
  /\ UNCHANGED <<wr, nat, freeCount, reach, call, nativeConforms, kept>>

\* The garbage collector runs the finalizer of an unreachable wrapper: t.Close().
Finalizer(w) ==
  /\ finalizer[w]
  /\ ~reach[w]
  /\ Close(w)
  /\ finalizer' = [finalizer EXCEPT ![w] = FALSE]
  /\ last' = Step("Finalizer", w, wr[w].fam, "return", NoArgs, GoNil, NoErr)
  /\ UNCHANGED <<reach, call, nativeConforms, kept>>

\* ------------------------------------------------------ specifications
InFlightOn(w) == \E g \in Goroutines : call[g].op # "idle" /\ call[g].w = w

\* The documented use of a wrapper: the program holds a reference to it and
\* has no other call on it in flight (the binding is not thread-safe).
MayUse(w) == reach[w] /\ ~InFlightOn(w)

InitCommon ==
  /\ wr = [w \in Wrappers |-> Absent]
  /\ reach = [w \in Wrappers |-> FALSE]
  /\ finalizer = [w \in Wrappers |-> FALSE]
  /\ nat = [h \in Handles |-> "unalloc"]
  /\ freeCount = [h \in Handles |-> 0]
  /\ call = [g \in Goroutines |-> Idle]
  /\ last = [op |-> "init", w |-> NULL, pre |-> NULL, fam |-> "none", out |-> "return",
             args |-> NoArgs, c |-> NoC, res |-> GoNil, err |-> NoErr]
  /\ kept = NoKept

Init == InitCommon /\ nativeConforms = TRUE

\* Spec: the lifecycle of the wrappers.  Every operation of the binding, on
\* any wrapper, from any goroutine; what a call returns beyond its shape is
\* left to SpecData, so the calls carry an empty and a one-element list.
ProbeLists == {s \in InputLists : Len(s) = 0 \/ s = <<1>>}

\* The goroutine that makes a call which returns in the same step: the steps
\* of the idle goroutines are the same, so the first idle one makes it.
Callers == {g \in Goroutines : call[g] = Idle /\ \A o \in Goroutines : o < g => call[o] # Idle}

Next ==
  \/ \E g \in Callers, fam \in Families, modelName \in ModelNames : NewModel(g, fam, modelName)
  \/ \E g \in Goroutines, w \in Wrappers, texts \in ProbeLists :
       MayUse(w) /\ EmbedEnter(g, w, texts, 0)
  \/ \E g \in Goroutines : EmbedReturn(g)
  \/ \E g \in Goroutines, w \in Wrappers, documents \in ProbeLists :
       MayUse(w) /\ RerankEnter(g, w, "q", documents, FALSE, 0)
  \/ \E g \in Goroutines : RerankReturn(g)
  \/ \E g \in Callers, w \in Wrappers : MayUse(w) /\ CallerClose(g, w)
  \/ \E w \in Wrappers : ~InFlightOn(w) /\ Drop(w)
  \/ \E w \in Wrappers : Finalizer(w)
  \/ \E g \in Callers, fam \in Families : ListModels(g, fam)

Spec == Init /\ [][Next]_vars

\* SpecData: what Embed and Rerank return.  One wrapper of any family, just
\* constructed, and calls on it with every input list, batch size and flag.
InitOpen ==
  \E fam \in Families :
    /\ wr = [w \in Wrappers |-> IF w = 1 THEN [fam |-> fam, handle |-> 1, orig |-> 1] ELSE Absent]
    /\ reach = [w \in Wrappers |-> w = 1]
    /\ finalizer = [w \in Wrappers |-> w = 1]
    /\ nat = [h \in Handles |-> IF h = 1 THEN "live" ELSE "unalloc"]
    /\ freeCount = [h \in Handles |-> 0]
    /\ call = [g \in Goroutines |-> Idle]
    /\ last = [op |-> "New", w |-> 1, pre |-> NULL, fam |-> fam, out |-> "return",
               args |-> NoArgs, c |-> NoC, res |-> GoNil, err |-> NoErr]
    /\ kept = NoKept

NextData ==
  \/ \E texts \in InputLists, batchSize \in BatchSizes :
       MayUse(1) /\ EmbedEnter(1, 1, texts, batchSize)
  \/ EmbedReturn(1)
  \/ \E query \in Queries, documents \in InputLists, returnDocuments \in BOOLEAN,
         batchSize \in BatchSizes :
       MayUse(1) /\ RerankEnter(1, 1, query, documents, returnDocuments, batchSize)
  \/ RerankReturn(1)
  \/ \E fam \in Families : ListModels(1, fam)

InitData == InitOpen /\ nativeConforms = TRUE

SpecData == InitData /\ [][NextData]_vars

\* SpecKeep: SpecData with a caller that holds on to a result it was given and
\* goes on calling, and closes the wrapper.
KeepLists == {s \in InputLists : Len(s) = 1 \/ s = <<1, 2>>}

NextKeep ==
  \/ \E texts \in KeepLists, batchSize \in 1..MaxLen :
       batchSize \in {1, Len(texts)} /\ MayUse(1) /\ EmbedEnter(1, 1, texts, batchSize)
  \/ EmbedReturn(1)
  \/ \E documents \in KeepLists, batchSize \in 1..MaxLen :
       batchSize \in {1, Len(documents)} /\ MayUse(1) /\ RerankEnter(1, 1, "q", documents, TRUE, batchSize)
  \/ RerankReturn(1)
  \/ Keep
  \/ MayUse(1) /\ CallerClose(1, 1)

InitKeep == InitOpen /\ nativeConforms = TRUE

SpecKeep == InitKeep /\ [][NextKeep]_vars

\* SpecAnyNative: the calls of SpecData, with the default batch size, over a
\* native library that may also break its contract.
InitAnyNative == InitOpen /\ nativeConforms \in BOOLEAN

NextAnyNative ==
  \/ \E texts \in InputLists :
       MayUse(1) /\ EmbedEnter(1, 1, texts, 0)
  \/ EmbedReturn(1)
  \/ \E query \in Queries, documents \in InputLists, returnDocuments \in BOOLEAN :
       MayUse(1) /\ RerankEnter(1, 1, query, documents, returnDocuments, 0)
  \/ RerankReturn(1)
  \/ \E fam \in Families : ListModels(1, fam)

SpecAnyNative == InitAnyNative /\ [][NextAnyNative]_vars

\* SpecConc: the program without any synchronization of its own, on one
\* wrapper just constructed.  Goroutines call into the wrapper while another
\* goroutine is using it, and the last reference may go while a call is inside
\* the native library (the receiver is not used after its handle field has
\* been read).
NextConc ==
  \/ \E g \in Goroutines, w \in Wrappers : reach[w] /\ EmbedEnter(g, w, <<1>>, 0)
  \/ \E g \in Goroutines : EmbedReturn(g)
  \/ \E g \in Goroutines, w \in Wrappers : reach[w] /\ RerankEnter(g, w, "q", <<1>>, FALSE, 0)
  \/ \E g \in Goroutines : RerankReturn(g)
  \/ \E g \in Goroutines, w \in Wrappers : reach[w] /\ CallerClose(g, w)
  \/ \E w \in Wrappers : Drop(w)
  \/ \E w \in Wrappers : Finalizer(w)

InitConc == InitOpen /\ nativeConforms = TRUE

SpecConc == InitConc /\ [][NextConc]_vars

\* SpecGC: a program whose calls on the wrapper are serialized, and whose last
\* use of the wrapper may be a call: the receiver is not used after its handle
\* field has been read for the native call, so the wrapper can become
\* unreachable, and its finalizer run, while the call is inside the native
\* library.
ShortLists == {s \in InputLists : Len(s) <= 1}

NextGC ==
  \/ \E g \in Goroutines, w \in Wrappers, texts \in ShortLists :
       MayUse(w) /\ EmbedEnter(g, w, texts, 0)
  \/ \E g \in Goroutines : EmbedReturn(g)
  \/ \E g \in Goroutines, w \in Wrappers, documents \in ShortLists :
       MayUse(w) /\ RerankEnter(g, w, "q", documents, FALSE, 0)
  \/ \E g \in Goroutines : RerankReturn(g)
  \/ \E g \in Goroutines, w \in Wrappers : MayUse(w) /\ CallerClose(g, w)
  \/ \E w \in Wrappers : Drop(w)
  \/ \E w \in Wrappers : Finalizer(w)

InitGC == InitOpen /\ nativeConforms = TRUE

SpecGC == InitGC /\ [][NextGC]_vars

\* SpecGCLive: SpecGC in a program that keeps running, where the garbage
\* collector gets to run the finalizer of every wrapper that stays unreachable.
SpecGCLive == SpecGC /\ \A w \in Wrappers : WF_vars(Finalizer(w))

\* SpecMarshal: one program that constructs a model, calls it with every
\* input list and closes it, so that every path of the argument marshaling is
\* taken: the constructors, the native call, its failure, the empty-input panic
\* and the nil-handle return.
NextMarshal ==
  \/ \E fam \in Families, modelName \in ModelNames :
       wr[1].fam = "none" /\ NewModel(1, fam, modelName)
  \/ \E texts \in InputLists :
       MayUse(1) /\ EmbedEnter(1, 1, texts, 0)
  \/ EmbedReturn(1)
  \/ \E query \in Queries, documents \in InputLists :
       MayUse(1) /\ RerankEnter(1, 1, query, documents, TRUE, 0)
  \/ RerankReturn(1)
  \/ MayUse(1) /\ CallerClose(1, 1)

InitMarshal == InitCommon /\ nativeConforms = TRUE

SpecMarshal == InitMarshal /\ [][NextMarshal]_vars

\* ------------------------------------------------------------- claims
\* The step just taken is the call of Embed or Rerank by the program (not the
\* return of a native call: no goroutine has left the native library).
Invoked ==
  /\ last'.op \in {"Embed", "Rerank"}
  /\ \A g \in Goroutines : call[g] # Idle => call'[g] # Idle

Returned(op) == last.op = op /\ last.out = "return" /\ last.err = NoErr /\ ~last.res.nil

\* C1: Close is idempotent. Whatever sequence of Close calls a wrapper gets
\* (the program's and the finalizer's), the first one, which finds the handle,
\* frees it, every later one changes nothing and returns normally, and after
\* each of them the native free function has run exactly once on the handle.
C1_CloseIdempotent ==
  [][last'.op \in {"Close", "Finalizer"} =>
       LET w == last'.w
           h == wr[w].orig
       IN /\ last'.out = "return"
          /\ freeCount'[h] = 1
          /\ wr[w].handle # NULL => freeCount[h] = 0 /\ nat'[h] = "freed"
          /\ wr[w].handle = NULL => wr' = wr /\ nat' = nat /\ freeCount' = freeCount]_vars

\* The finalizer's Close has run after an explicit Close: one free.
C1_Witness ==
  /\ last.op = "Finalizer"
  /\ last.pre = NULL
  /\ freeCount[wr[last.w].orig] = 1

\* C2: Embed or Rerank called on a closed wrapper returns a nil result and the
\* handle-is-nil error of its type, and enters no native call.
C2_ClosedHandleError ==
  [][Invoked /\ wr[last'.w].handle = NULL =>
       /\ last'.out = "return"
       /\ last'.res = GoNil
       /\ last'.err = HandleNilMessage(wr[last'.w].fam)
       /\ call' = call
       /\ nat' = nat /\ freeCount' = freeCount]_vars

C2_Witness ==
  /\ last.op = "Embed"
  /\ last.pre = NULL
  /\ last.err \in HandleNilMessages
  /\ last.res.nil

\* C3: Embed (Rerank) called on an open wrapper with an empty input list
\* returns an empty list and no error, and enters no native call.
C3_EmptyInputReturnsEmpty ==
  [][Invoked /\ wr[last'.w].handle # NULL /\ Len(last'.args.inputs) = 0 =>
       /\ last'.out = "return"
       /\ last'.res.elems = <<>>
       /\ last'.err = NoErr
       /\ call' = call]_vars

\* C4: a failed load leaves nothing behind. A constructor whose native
\* constructor fails returns the nil wrapper and an error, and creates no
\* wrapper, no handle and no finalizer; one that succeeds returns a wrapper that
\* holds a live handle and has its finalizer set. No wrapper exists that was
\* never given a handle.
C4_FailedLoadLeavesNothing ==
  [][/\ last'.op = "New" =>
          IF last'.err # NoErr
          THEN /\ last'.w = NULL
               /\ wr' = wr /\ nat' = nat /\ freeCount' = freeCount
               /\ finalizer' = finalizer /\ reach' = reach
          ELSE /\ last'.w # NULL
               /\ wr[last'.w] = Absent
               /\ wr'[last'.w].handle # NULL
               /\ nat'[wr'[last'.w].handle] = "live"
               /\ finalizer'[last'.w]
     /\ \A w \in Wrappers : wr'[w] # Absent => wr'[w].orig # NULL /\ nat'[wr'[w].orig] # "unalloc"
     /\ \A w \in Wrappers : finalizer'[w] => wr'[w] # Absent]_vars

\* An unknown model code was refused and nothing is allocated.
C4_Witness ==
  /\ last.op = "New"
  /\ last.err = "ModelNotFound"
  /\ last.w = NULL
  /\ \A w \in Wrappers : wr[w] = Absent /\ ~finalizer[w]
  /\ \A h \in Handles : nat[h] = "unalloc"

\* What the model computes for one input: the dense vector, the sparse pair.
ExpectedFor(fam, x) ==
  IF fam = "sparse"
  THEN [Indices |-> SparseOf(x).indices, Values |-> SparseOf(x).values]
  ELSE DenseOf(x).data

\* C5: a successful Embed (dense text, sparse text, image) on a non-empty
\* list returns as many embeddings as inputs, and embedding i is the one of
\* input i.
C5_EmbedIndexParallel ==
  Returned("Embed") =>
    /\ Len(last.res.elems) = Len(last.args.inputs)
    /\ \A i \in 1..Len(last.args.inputs) :
         last.res.elems[i] = ExpectedFor(last.fam, last.args.inputs[i])

\* Two different inputs, embedded in two batches, came back in order.
C5_Witness ==
  /\ Returned("Embed")
  /\ Len(last.args.inputs) = 2
  /\ last.args.inputs[1] # last.args.inputs[2]
  /\ last.args.batchSize = 1
  /\ last.res.elems[1] # last.res.elems[2]

\* C6: every SparseEmbedding that SparseTextEmbedding.Embed returns has as
\* many Indices as Values, whatever vector the native library handed back.
C6_SparseSameLength ==
  Returned("Embed") /\ last.fam = "sparse" =>
    \A i \in 1..Len(last.res.elems) :
      Len(last.res.elems[i].Indices) = Len(last.res.elems[i].Values)

\* A library off its contract returned two entries for one input, the entry
\* lengths differing from the number of entries.
C6_Witness ==
  /\ ~nativeConforms
  /\ Returned("Embed") /\ last.fam = "sparse"
  /\ Len(last.res.elems) = 2
  /\ Len(last.args.inputs) = 1
  /\ Len(last.res.elems[1].Indices) = 1
  /\ Len(last.res.elems[2].Values) = 0

\* C7: the results of a successful Rerank are in descending order of Score.
C7_RerankDescending ==
  Returned("Rerank") =>
    \A i \in 2..Len(last.res.elems) :
      last.res.elems[i - 1].Score >= last.res.elems[i].Score

\* The less relevant document was given first and came back second.
C7_Witness ==
  /\ Returned("Rerank")
  /\ Len(last.args.inputs) = 2
  /\ ScoreOf(last.args.inputs[1]) < ScoreOf(last.args.inputs[2])
  /\ last.res.elems[1].Index = 1
  /\ last.res.elems[1].Score > last.res.elems[2].Score

\* C8: a successful Rerank returns one result per document, and the Index
\* values are exactly 0 .. len(documents)-1, each once.
C8_RerankIndexPermutation ==
  Returned("Rerank") =>
    LET n == Len(last.args.inputs)
    IN /\ Len(last.res.elems) = n
       /\ {last.res.elems[i].Index : i \in 1..Len(last.res.elems)} = 0..(n - 1)

\* The same document twice: two results, indices 0 and 1.
C8_Witness ==
  /\ Returned("Rerank")
  /\ Len(last.args.inputs) = 2
  /\ last.args.inputs[1] = last.args.inputs[2]
  /\ Len(last.res.elems) = 2
  /\ last.res.elems[1].Index # last.res.elems[2].Index

\* C9: Closed is terminal. A wrapper whose handle field is nil keeps it nil
\* under every later step, on itself or on another wrapper; Close and the
\* finalizer leave it nil; no wrapper goes back to not existing, and a freed
\* native handle never becomes live again.
C9_ClosedIsTerminal ==
  [][/\ \A w \in Wrappers :
          /\ wr[w] # Absent /\ wr[w].handle = NULL => wr'[w].handle = NULL
          /\ wr[w] # Absent => wr'[w] # Absent /\ wr'[w].fam = wr[w].fam /\ wr'[w].orig = wr[w].orig
          /\ last'.op \in {"Close", "Finalizer"} /\ last'.w = w => wr'[w].handle = NULL
     /\ \A h \in Handles : nat[h] = "freed" => nat'[h] = "freed"]_vars

\* A call on another wrapper has returned while this one is closed.
C9_Witness ==
  \E w \in Wrappers :
    /\ wr[w] # Absent /\ wr[w].handle = NULL
    /\ nat[wr[w].orig] = "freed"
    /\ last.op \in {"Embed", "Rerank"} /\ last.out = "return" /\ last.err = NoErr
    /\ last.w # w

\* C10, as claimed: a wrapper leaves Ready (its handle field goes from a
\* handle to nil) only in an explicit Close call by the program.
C10_OnlyExplicitClose ==
  [][\A w \in Wrappers :
       wr[w].handle # NULL /\ wr'[w].handle = NULL => last'.op = "Close" /\ last'.w = w]_vars

\* C10, amended: a wrapper leaves Ready only in a Close call on it: the
\* program's, or the one made by the finalizer its constructor registered, which
\* runs only once the program holds no reference to the wrapper.
C10_OnlyCloseOrFinalizer ==
  [][\A w \in Wrappers :
       wr[w].handle # NULL /\ wr'[w].handle = NULL =>
         /\ last'.w = w
         /\ \/ last'.op = "Close"
            \/ last'.op = "Finalizer" /\ finalizer[w] /\ ~reach[w]]_vars

\* The finalizer closed a handle the program never closed.
C10_Witness ==
  /\ last.op = "Finalizer"
  /\ last.pre # NULL
  /\ wr[last.w].handle = NULL
  /\ nat[last.pre] = "freed"


\* C11: handles are isolated. Embed, Rerank or Close on one wrapper leaves
\* every other wrapper's handle field, its native handle's state and the
\* number of frees of that handle as they were.
C11_HandlesIsolated ==
  [][last'.op \in {"Embed", "Rerank", "Close"} =>
       \A v \in Wrappers \ {last'.w} :
         /\ wr'[v] = wr[v]
         /\ wr[v].orig # NULL =>
              /\ nat'[wr[v].orig] = nat[wr[v].orig]
              /\ freeCount'[wr[v].orig] = freeCount[wr[v].orig]]_vars

\* One of two wrappers of the same family has been closed by the program and
\* the other still holds its live handle.
C11_Witness ==
  /\ last.op = "Close"
  /\ last.pre # NULL
  /\ \E v \in Wrappers \ {last.w} :
       /\ wr[v].fam = wr[last.w].fam
       /\ wr[v].handle # NULL
       /\ nat[wr[v].handle] = "live"

\* C12: the binding enforces no lock on a handle. Whatever calls are inside
\* the native library on a wrapper, an idle goroutine's Embed (or Rerank) on
\* that wrapper is not made to wait: it can enter the native library at once,
\* so two calls on one handle can be inside it together.
C12_NoLock ==
  \A g \in Goroutines, w \in Wrappers :
    (call[g] = Idle /\ reach[w] /\ wr[w].handle # NULL) =>
      /\ wr[w].fam \in EmbedFamilies =>
           ENABLED (EmbedEnter(g, w, <<1>>, 0) /\ call'[g].op = "Embed")
      /\ wr[w].fam = "rerank" =>
           ENABLED (RerankEnter(g, w, "q", <<1>>, FALSE, 0) /\ call'[g].op = "Rerank")

\* Two goroutines are inside the native library with the same wrapper's handle.
C12_Witness ==
  \E g, o \in Goroutines :
    /\ g # o
    /\ call[g].op = "Embed"
    /\ call[o].op = "Embed"
    /\ call[g].w = call[o].w
    /\ call[g].handle = call[o].handle

\* C13: an empty model name selects the family default. The constructor hands
\* the native constructor the null pointer exactly when modelName is the empty
\* string, and the name unchanged otherwise.
C13_EmptyNameIsNull ==
  last.op = "New" =>
    /\ last.c.name.null <=> last.args.name = ""
    /\ ~last.c.name.null => last.c.name.s = last.args.name

\* A constructor given the empty name has passed the null pointer and returned
\* a wrapper with a live handle of the family default.
C13_Witness ==
  /\ last.op = "New"
  /\ last.args.name = ""
  /\ last.c.name.null
  /\ last.err = NoErr
  /\ nat[wr[last.w].handle] = "live"

\* C14: batchSize 0 is forwarded as 0 and a positive batchSize n as exactly n.
\* Every native call in flight was given, as its batch size, the batchSize of
\* the Embed or Rerank call that made it, whenever that is not negative.
C14_BatchSizeForwarded ==
  \A g \in Goroutines :
    (call[g].op \in {"Embed", "Rerank"} /\ call[g].args.batchSize >= 0) =>
      call[g].c.batchSize = call[g].args.batchSize

\* An Embed call with batchSize 1 on two inputs is inside the native library,
\* which was given batch size 1.
C14_Witness ==
  \E g \in Goroutines :
    /\ call[g].op = "Embed"
    /\ Len(call[g].args.inputs) = 2
    /\ call[g].args.batchSize = 1
    /\ call[g].c.batchSize = 1

\* C15: a negative batchSize is answered with an InvalidArgument error and is
\* not handed to the native library: the call returns at once with that error
\* and no native call is started.
C15_NegativeBatchRejected ==
  [][(Invoked /\ last'.args.batchSize < 0 /\ last'.pre # NULL /\ Len(last'.args.inputs) > 0) =>
       /\ last'.out = "return"
       /\ last'.err = "InvalidArgument"
       /\ call' = call]_vars

\* C16: in the results of a successful Rerank the document text is present
\* exactly when the call was made with returnDocuments = true, and it is then
\* the text of the document the result's Index names; otherwise Document is
\* the zero string.
C16_DocumentIffRequested ==
  Returned("Rerank") =>
    \A i \in 1..Len(last.res.elems) :
      LET r == last.res.elems[i]
      IN /\ r.Document # 0 <=> last.args.returnDocuments
         /\ last.args.returnDocuments => r.Document = last.args.inputs[r.Index + 1]

\* Two different documents reranked with returnDocuments = true: the results
\* came back in the other order, each with its own document's text.
C16_Witness ==
  /\ Returned("Rerank")
  /\ last.args.returnDocuments
  /\ Len(last.res.elems) = 2
  /\ last.res.elems[1].Index = 1
  /\ last.res.elems[1].Document = last.args.inputs[2]
  /\ last.res.elems[2].Document = last.args.inputs[1]
  /\ last.args.inputs[1] # last.args.inputs[2]

\* C17: Rerank ordering is stable. Any two results with equal Score appear in
\* the order of their document indices.
C17_RerankStable ==
  Returned("Rerank") =>
    \A i, j \in 1..Len(last.res.elems) :
      (i < j /\ last.res.elems[i].Score = last.res.elems[j].Score) =>
        last.res.elems[i].Index < last.res.elems[j].Index

\* Two documents with the same score came back in the order given.
C17_Witness ==
  /\ Returned("Rerank")
  /\ Len(last.res.elems) = 2
  /\ last.res.elems[1].Score = last.res.elems[2].Score
  /\ last.res.elems[1].Index = 0
  /\ last.res.elems[2].Index = 1

\* C18: in every sparse embedding that a successful Embed returns, the Indices
\* are strictly increasing (and so unique).
C18_SparseIndicesIncreasing ==
  Returned("Embed") /\ last.fam = "sparse" =>
    \A i \in 1..Len(last.res.elems) :
      \A j, k \in 1..Len(last.res.elems[i].Indices) :
        j < k => last.res.elems[i].Indices[j] < last.res.elems[i].Indices[k]

\* A sparse embedding with two indices has been returned.
C18_Witness ==
  /\ Returned("Embed") /\ last.fam = "sparse"
  /\ \E i \in 1..Len(last.res.elems) :
       /\ Len(last.res.elems[i].Indices) = 2
       /\ last.res.elems[i].Indices[1] < last.res.elems[i].Indices[2]

\* The Go list of a family's registry.
ListedModels(fam) ==
  [i \in 1..Len(Registry(fam)) |->
     [ModelCode |-> Registry(fam)[i].model_code,
      Description |-> Registry(fam)[i].description,
      Dimension |-> Registry(fam)[i].dim]]

\* C19: the List*Models calls are pure. In whatever state one is made, it
\* returns normally, without an error, the list of the family's registry (the
\* same list every time), and it leaves every wrapper, every native handle and
\* every call in flight as it was.
C19_ListModelsPure ==
  [][last'.op = "List" =>
       /\ last'.out = "return"
       /\ last'.err = NoErr
       /\ last'.res = GoSlice(ListedModels(last'.fam))
       /\ UNCHANGED <<wr, reach, finalizer, nat, freeCount, call>>]_vars

\* A list has been returned while one wrapper is closed, another is open and
\* a call on the open one is inside the native library.
C19_Witness ==
  /\ last.op = "List"
  /\ Len(last.res.elems) > 0
  /\ \E w, v \in Wrappers :
       /\ wr[w].orig # NULL /\ wr[w].handle = NULL /\ nat[wr[w].orig] = "freed"
       /\ wr[v].handle # NULL /\ nat[wr[v].handle] = "live"
       /\ \E g \in Goroutines : call[g].op # "idle" /\ call[g].w = v

\* The model codes in the list a family's List*Models call returns.
ListedCodes(fam) ==
  LET models == ToGoModels(NativeListSupportedModels(fam))
  IN {models[i].ModelCode : i \in 1..Len(models)}

C21_ReturnedResultsStable ==
  kept.held => kept.cur = kept.orig

\* A later call on the same wrapper has returned a different result while the
\* caller holds the earlier one.
C21_Witness ==
  /\ kept.held
  /\ last.op = "Embed" /\ last.out = "return" /\ ~last.res.nil
  /\ last.res # kept.orig
  /\ kept.cur = kept.orig

\* C22: a batch call is all-or-nothing. When the native call fails on one
\* input, Embed returns no result list at all, and an error whose message is
\* the native one, which names the index of the input that failed.
C22_BatchAllOrNothing ==
  (last.op = "Embed" /\ last.out = "return"
     /\ last.c.ret.err \in InputFailures(last.fam, last.args.inputs)) =>
    /\ last.res.nil
    /\ \E i \in 0..(Len(last.args.inputs) - 1) :
         last.c.ret.err = FailedAt(i) /\ last.err = FailedAt(i)

\* The second of two images could not be read: no result, and the error
\* names index 1.
C22_Witness ==
  /\ last.op = "Embed" /\ last.out = "return"
  /\ last.fam = "image"
  /\ Len(last.args.inputs) = 2
  /\ last.c.ret.err = FailedAt(1)
  /\ last.res.nil
  /\ last.err = FailedAt(1)

\* C23: batch splitting is transparent. On one handle, Embed of the same
\* inputs with batchSize 1 and with batchSize len(inputs) returns the same
\* list: the caller holds the result of the one call when the other returns.
C23_BatchSplitTransparent ==
  (/\ kept.held
   /\ Returned("Embed")
   /\ last.args.inputs = kept.args.inputs
   /\ {last.args.batchSize, kept.args.batchSize} = {1, Len(last.args.inputs)}) =>
    last.res = kept.orig

\* Two inputs were embedded in one chunk of two and then in two chunks of one.
C23_Witness ==
  /\ kept.held
  /\ Returned("Embed")
  /\ Len(last.args.inputs) = 2
  /\ last.args.inputs = kept.args.inputs
  /\ kept.args.batchSize = 2
  /\ last.args.batchSize = 1
  /\ last.res = kept.orig

\* C24: the native handle is never freed while a native call that was given
\* it is in flight, and no native call is started with a freed handle: every
\* call inside the native library holds a live handle.
C24_NoFreeInFlight ==
  \A g \in Goroutines :
    call[g].op # "idle" => nat[call[g].handle] = "live"

\* C25: every operation returns exactly one of a value and an error, whatever
\* the native library does with its error out-parameter: a constructor
\* returns a wrapper exactly when it returns no error, and Embed and Rerank
\* return a nil result exactly when they return an error.
C25_ValueXorError ==
  /\ (last.op = "New" /\ last.out = "return") =>
       (last.w # NULL <=> last.err = NoErr)
  /\ (last.op \in {"Embed", "Rerank"} /\ last.out = "return") =>
       (last.res.nil <=> last.err # NoErr)

\* C26: a failing Embed or Rerank call leaves the handle as it was. When a
\* call on an open handle returns an error, the wrapper still holds the same
\* native handle, the handle is live and has not been freed, and a further
\* call on the wrapper goes through to the native library.
C26_FailedCallKeepsHandle ==
  (last.op \in {"Embed", "Rerank"} /\ last.out = "return" /\ last.err # NoErr /\ last.pre # NULL) =>
    /\ wr[last.w].handle = last.pre
    /\ nat[last.pre] = "live"
    /\ freeCount[last.pre] = 0
    /\ last.fam \in EmbedFamilies =>
         ENABLED (EmbedEnter(1, last.w, <<1>>, 0) /\ call'[1].op = "Embed")
    /\ last.fam = "rerank" =>
         ENABLED (RerankEnter(1, last.w, "q", <<1>>, FALSE, 0) /\ call'[1].op = "Rerank")

\* An Embed call on an open wrapper has failed in the native library.
C26_Witness ==
  /\ last.op = "Embed" /\ last.out = "return"
  /\ last.err = "InferenceError"
  /\ last.res.nil
  /\ wr[last.w].handle = last.pre
  /\ nat[last.pre] = "live"

\* C27: every handle a constructor returned is released exactly once. Close
\* by the caller frees it; when the caller lets go of the wrapper, closed or
\* not, the handle is eventually freed, by the finalizer's Close if no Close
\* came before; and at no time has a handle been freed twice.
C27_ReleasedExactlyOnce ==
  /\ [](\A h \in Handles : freeCount[h] <= 1)
  /\ \A w \in Wrappers :
       (wr[w].orig # NULL /\ ~reach[w])
         ~> (wr[w].orig # NULL /\ nat[wr[w].orig] = "freed" /\ freeCount[wr[w].orig] = 1)

\* The finalizer has freed the handle of a wrapper that was never closed.
C27_Witness ==
  /\ last.op = "Finalizer"
  /\ last.pre # NULL
  /\ ~reach[last.w] /\ ~finalizer[last.w]
  /\ wr[last.w].handle = NULL
  /\ nat[last.pre] = "freed"
  /\ freeCount[last.pre] = 1

\* The Go value go is the copy of the native vector vec, entry by entry.
FaithfulCopy(op, fam, go, vec) ==
  /\ Len(go) = vec.len
  /\ \A i \in 1..vec.len :
       CASE op = "List" ->
              /\ go[i].ModelCode = vec.models[i].model_code
              /\ go[i].Description = vec.models[i].description
              /\ go[i].Dimension = vec.models[i].dim
         [] op = "Rerank" ->
              /\ go[i].Index = vec.results[i].index
              /\ go[i].Score = vec.results[i].score
         [] op = "Embed" /\ fam = "sparse" ->
              /\ Len(go[i].Indices) = vec.embeddings[i].len
              /\ Len(go[i].Values) = vec.embeddings[i].len
              /\ \A j \in 1..vec.embeddings[i].len :
                   /\ go[i].Indices[j] = vec.embeddings[i].indices[j]
                   /\ go[i].Values[j] = vec.embeddings[i].values[j]
         [] OTHER ->
              /\ Len(go[i]) = vec.arrays[i].len
              /\ \A j \in 1..vec.arrays[i].len : go[i][j] = vec.arrays[i].data[j]

\* C28: result marshaling is faithful and order-preserving. The value that
\* Embed, Rerank or a List*Models call returns has as many entries as the
\* native result vector it was given, and entry i is the copy of native entry
\* i, whatever vector the native library handed back.
C28_MarshalingFaithful ==
  (last.op \in {"Embed", "Rerank", "List"} /\ last.out = "return" /\ ~last.c.ret.null) =>
    /\ ~last.res.nil
    /\ FaithfulCopy(last.op, last.fam, last.res.elems, last.c.ret.vec)

\* Two different inputs have been embedded by the text family: two entries,
\* each the copy of its own native array.
C28_Witness ==
  /\ last.op = "Embed" /\ last.out = "return" /\ last.fam = "text"
  /\ ~last.c.ret.null
  /\ last.c.ret.vec.len = 2
  /\ last.c.ret.vec.arrays[1] # last.c.ret.vec.arrays[2]
  /\ last.res.elems[1] = last.c.ret.vec.arrays[1].data
  /\ last.res.elems[2] = last.c.ret.vec.arrays[2].data

\* How often an event happened to an object during the call.
MemCount(mem, ev, obj) == Cardinality({i \in DOMAIN mem : mem[i] = MemEvent(ev, obj)})

\* The object is freed exactly once, it has been copied, and no copy follows the free.
FreedOnceAfterCopy(mem, obj) ==
  /\ MemCount(mem, "free", obj) = 1
  /\ MemCount(mem, "copy", obj) >= 1
  /\ \A i, j \in DOMAIN mem :
       mem[i] = MemEvent("free", obj) /\ mem[j] = MemEvent("copy", obj) => j < i

\* C29: when Embed, Rerank or a List function returns, the native result
\* vector it was handed (a non-null result) and the native error object it was
\* handed (a non-null error) have each been freed exactly once, after their
\* contents were copied into Go memory and with no read after the free; an
\* object that was not handed over is neither copied nor freed; no deferred
\* free is left pending.
C29_ResultsFreedOnceAfterCopy ==
  (last.out = "return" /\ last.op \in {"Embed", "Rerank", "List"}) =>
    /\ last.c.defers = <<>>
    /\ IF last.c.ret.null
       THEN MemCount(last.c.mem, "free", "result") = 0 /\ MemCount(last.c.mem, "copy", "result") = 0
       ELSE FreedOnceAfterCopy(last.c.mem, "result") /\ ~last.res.nil
    /\ IF last.c.ret.err = NoErr
       THEN MemCount(last.c.mem, "free", "cErr") = 0 /\ MemCount(last.c.mem, "copy", "cErr") = 0
       ELSE FreedOnceAfterCopy(last.c.mem, "cErr") /\ last.err = last.c.ret.err

\* C29 witness: an Embed over two texts has returned its embeddings with
\* the result vector copied and then freed.
C29_Witness ==
  /\ Returned("Embed") /\ ~last.res.nil /\ Len(last.args.inputs) = 2
  /\ FreedOnceAfterCopy(last.c.mem, "result")


\* The C strings of a call, as the objects the marshaling allocates.
CStringObjs == {"cModelName", "cQuery"} \cup {CStringObj(i) : i \in 1..MaxLen}

\* The C strings allocated so far, in allocation order.
Allocated(mem) == SelectSeq(mem, LAMBDA e : e.ev = "alloc")

\* The C strings a call of the operation with these arguments must allocate.
ExpectedAllocs(op, args) ==
  CASE op = "New" -> IF args.name = "" THEN <<>> ELSE <<MemEvent("alloc", "cModelName")>>
    [] op = "Rerank" ->
         <<MemEvent("alloc", "cQuery")>> \o [i \in 1..Len(args.inputs) |-> MemEvent("alloc", CStringObj(i))]
    [] OTHER -> [i \in 1..Len(args.inputs) |-> MemEvent("alloc", CStringObj(i))]

\* C30: (a) when Embed or Rerank enters the native call, it passes exactly
\* len(inputs) C strings holding the inputs in the caller's order, with
\* len(inputs) as their count (and the query for Rerank), all allocated and
\* none freed yet; (b) when a constructor, Embed or Rerank returns or panics,
\* on the success path and on each error path, every C string allocated for
\* the call has been freed exactly once after its allocation, nothing else
\* was freed and no free is pending; a call that reaches the native library
\* allocated one string per input (one for a non-empty model name), and the
\* nil-handle return allocated none.
C30_MarshalingBalanced ==
  /\ (last.out = "enter" /\ last.op \in {"Embed", "Rerank"}) =>
       /\ Len(last.c.texts) = Len(last.args.inputs)
       /\ \A i \in 1..Len(last.args.inputs) : last.c.texts[i] = last.args.inputs[i]
       /\ last.c.n = Len(last.args.inputs)
       /\ last.op = "Rerank" => last.c.query = last.args.query
       /\ last.c.mem = ExpectedAllocs(last.op, last.args)
  /\ (last.out \in {"return", "panic"} /\ last.op \in {"New", "Embed", "Rerank"}) =>
       /\ last.c.defers = <<>>
       /\ \A o \in CStringObjs :
            /\ MemCount(last.c.mem, "alloc", o) <= 1
            /\ MemCount(last.c.mem, "free", o) = MemCount(last.c.mem, "alloc", o)
            /\ \A i, j \in DOMAIN last.c.mem :
                 last.c.mem[i] = MemEvent("alloc", o) /\ last.c.mem[j] = MemEvent("free", o) => i < j
       /\ IF last.err \in HandleNilMessages
          THEN last.c.mem = <<>>
          ELSE IF last.out = "panic"
          THEN Allocated(last.c.mem) = IF last.op = "Rerank" THEN <<MemEvent("alloc", "cQuery")>> ELSE <<>>
          ELSE Allocated(last.c.mem) = ExpectedAllocs(last.op, last.args)

\* C30 witness: a Rerank over two documents failed in the native library and
\* returned its error, with the query and both document strings allocated
\* and freed.
C30_Witness ==
  /\ last.op = "Rerank" /\ last.out = "return" /\ last.res.nil /\ last.err = "InferenceError"
  /\ Len(last.args.inputs) = 2
  /\ MemCount(last.c.mem, "free", "cQuery") = 1
  /\ MemCount(last.c.mem, "free", CStringObj(1)) = 1
  /\ MemCount(last.c.mem, "free", CStringObj(2)) = 1
====
